---- MODULE Spec2Model ----
(***************************************************************************)
(* A model of PyCryptography: the Caesar, Polybius square, Vigenere,       *)
(* Playfair ("Playfer") and Two-Square ciphers of src/ciphers.py and the   *)
(* alphabet and matrix helpers of src/utils.py and src/cipher_utils.py.    *)
(*                                                                         *)
(* Conventions.  A Python str is a sequence of one-character strings.      *)
(* Python positions are 0-based; PyIndex and PyAt keep the 0-based         *)
(* numbers of the source.  A call that can raise returns a record          *)
(* [ok, val, err]: Ok(v) or Raise(e), e the name of the exception.         *)
(* encrypt and decrypt change no field of a cipher object; the client      *)
(* variables (pc, the texts given and returned) follow one round trip at   *)
(* a time, started when the client is idle; a setter call makes it idle.   *)
(* Method bodies are modelled as written; the annotations of ciphers.py    *)
(* (which name List and Tuple without importing them) are taken as         *)
(* unevaluated, so that the classes exist and their bodies decide.         *)
(***************************************************************************)
EXTENDS Integers, Sequences, FiniteSets, TLC

VARIABLES
    cipher,     \* the class the client works with in this behaviour
    c_obj,      \* Caesar: "none" | "live" | "failed" (constructor raised)
    c_shift,    \* Caesar._shift, a tagged Python value
    c_err,      \* exception of the last Caesar call, "" when it returned
    c_pc,       \* client position: "idle" | "encrypted" | "decrypted"
    c_msg,      \* the text last given to Caesar.encrypt
    c_enc,      \* what Caesar.encrypt returned for c_msg
    c_dec,      \* what Caesar.decrypt returned for c_enc
    c_arg,      \* the shift last given to Caesar(...) or to the shift setter
    u_op,       \* the helper of utils.py / cipher_utils.py last called
    u_lang,     \* its language argument
    u_alphabet, \* its alphabet argument
    u_cols,     \* its cols / size argument
    u_key,      \* its key argument
    u_res,      \* what the call returned or raised: Ok(value) or Raise(e)
    p_obj,      \* PolybiusSquare: "none" | "live"
    p_table,    \* PolybiusSquare._table
    p_coords,   \* PolybiusSquare._coords: cell -> <<row, column>>
    p_err,      \* exception of the last table assignment, "" when accepted
    p_pc,       \* client position: "idle" | "encrypted" | "decrypted"
                \*                | "decoded" | "recoded"
    p_in,       \* the text given to the first call of a round trip
    p_mid,      \* what the first call returned or raised
    p_out,      \* what the second call, given p_mid, returned or raised
    v_obj,      \* Vigenere: "none" | "live"
    v_key,      \* Vigenere._key
    v_shift,    \* Vigenere._shift, a tagged Python value
    v_alphabet, \* Vigenere._alphabet
    v_matrix,   \* Vigenere._matrix
    v_err,      \* exception of the last key or shift assignment, "" if none
    v_pc,       \* client position: "idle" | "encrypted" | "decrypted"
    v_in,       \* the text given to Vigenere.encrypt
    v_mid,      \* what encrypt returned or raised
    v_out,      \* what decrypt, given v_mid, returned or raised
    b_key1,     \* Playfer / TwoSquare client: the key (TwoSquare: the first key)
    b_key2,     \* TwoSquare client: the second key
    b_lang,     \* the language argument
    b_in,       \* the text of the round trip
    b_pc,       \* client position: "start" | "raised" | "called" | "decrypted"
    b_out,      \* what the round trip returned or raised
    b_res,      \* what a call of a helper returned or raised
    b_call      \* the helper called last and its arguments

caesarVars == <<c_obj, c_shift, c_err, c_pc, c_msg, c_enc, c_dec, c_arg>>

utilVars == <<u_op, u_lang, u_alphabet, u_cols, u_key, u_res>>

polyVars == <<p_obj, p_table, p_coords, p_err, p_pc, p_in, p_mid, p_out>>

vigVars ==
    <<v_obj, v_key, v_shift, v_alphabet, v_matrix, v_err, v_pc, v_in, v_mid, v_out>>

bigramVars == <<b_key1, b_key2, b_lang, b_in, b_pc, b_out, b_res, b_call>>

vars == <<cipher, caesarVars, utilVars, polyVars, vigVars, bigramVars>>

\* What the actions of one class leave alone.
notCaesar == <<utilVars, polyVars, vigVars, bigramVars>>

notUtil == <<caesarVars, polyVars, vigVars, bigramVars>>

notPoly == <<caesarVars, utilVars, vigVars, bigramVars>>

notVig == <<caesarVars, utilVars, polyVars, bigramVars>>

notBigram == <<caesarVars, utilVars, polyVars, vigVars>>

----------------------------------------------------------------------------
(* Bounds of the model.                                                    *)

\* Longest text given to Caesar.encrypt.
CaesarMaxLen == 2

\* Shifts are drawn around 0 and around +-26, up to this distance.
MaxShiftOffset == 2

\* Longest text given to PolybiusSquare.encrypt, and longest text given to
\* PolybiusSquare.decrypt.
PolyMaxLen == 2

PolyMaxDigits == 4

\* Longest text (beside "HELLOWORLD") given to Playfer and TwoSquare.
BigramMaxLen == 2

\* Longest text given to Vigenere.encrypt.
VigMaxLen == 2

\* Longest alphabet (beside the stock ones), largest column count (beside
\* the stock 5) and longest keyword given to the matrix builders.
MaxAlphabetLen == 3

MaxCols == 3

MaxKeyLen == 2

----------------------------------------------------------------------------
(* Python values and strings.                                              *)

Ok(v) == [ok |-> TRUE, val |-> v, err |-> ""]

Raise(e) == [ok |-> FALSE, val |-> <<>>, err |-> e]

PyInt(n) == [type |-> "int", v |-> n]

\* Values of other types that a caller can pass where an int is expected.
\* bool is a subclass of int: isinstance(True, int) is True.
NonIntValues ==
    { [type |-> "str", v |-> 0], [type |-> "float", v |-> 1],
      [type |-> "NoneType", v |-> 0] }

PyBools == { [type |-> "bool", v |-> 0], [type |-> "bool", v |-> 1] }

\* A type test that lets a float through as well.
isinstance_number(x) == x.type \in {"int", "bool", "float"}

isinstance_int(x) == x.type \in {"int", "bool"}

eng26_str_upper ==
    << "A", "B", "C", "D", "E", "F", "G", "H", "I", "J", "K", "L", "M",
       "N", "O", "P", "Q", "R", "S", "T", "U", "V", "W", "X", "Y", "Z" >>

eng25_str_upper ==
    << "A", "B", "C", "D", "E", "F", "G", "H", "I", "K", "L", "M",
       "N", "O", "P", "Q", "R", "S", "T", "U", "V", "W", "X", "Y", "Z" >>

LowerLetters ==
    << "a", "b", "c", "d", "e", "f", "g", "h", "i", "j", "k", "l", "m",
       "n", "o", "p", "q", "r", "s", "t", "u", "v", "w", "x", "y", "z" >>

rus36_str_upper ==
    <<
       "U+8897", "U+8898", "U+8899", "U+889A", "U+889B", "U+889D",
       "U+887C", "U+889E", "U+889F", "U+88A0", "U+88A1", "U+88A3",
       "U+88A5", "U+88A6", "U+88A7", "U+88A8", "U+88A9", "U+88AA",
       "U+5C0F", "U+5B5D", "U+6821", "U+8096", "U+5578", "U+7B11",
       "U+6548", "U+6954", "U+4E9B", "U+6B47", "U+874E", "U+978B",
       "U+534F", "U+631F", "U+643A",
       "-", "_", "." >>

digits == << "0", "1", "2", "3", "4", "5", "6", "7", "8", "9" >>

\* Other ASCII characters of the model, with their code points.
OtherChars ==
    << <<" ", 32>>, <<"!", 33>>, <<"-", 45>>, <<".", 46>>, <<"@", 64>>,
       <<"[", 91>>, <<"_", 95>> >>

Range(s) == { s[i] : i \in 1..Len(s) }

\* Position (1-based) of the first x in s, 0 when absent.
Pos(s, x) ==
    IF \E i \in 1..Len(s) : s[i] = x
    THEN CHOOSE i \in 1..Len(s) : s[i] = x /\ \A j \in 1..(i - 1) : s[j] # x
    ELSE 0

AllChars ==
    Range(eng26_str_upper) \cup Range(LowerLetters) \cup Range(digits)
        \cup { p[1] : p \in Range(OtherChars) }

\* The code point of each character of the model.
OrdTable ==
    [ c \in AllChars |->
        IF Pos(eng26_str_upper, c) > 0 THEN 64 + Pos(eng26_str_upper, c)
        ELSE IF Pos(LowerLetters, c) > 0 THEN 96 + Pos(LowerLetters, c)
        ELSE IF Pos(digits, c) > 0 THEN 47 + Pos(digits, c)
        ELSE (CHOOSE p \in Range(OtherChars) : p[1] = c)[2] ]

\* ord(c) of a one-character string.
Ord(c) == OrdTable[c]

\* The character of each code point from ' ' to 'z'; "?" stands for the
\* characters outside the model's repertoire.
ChrTable ==
    [ n \in 32..122 |->
        IF \E c \in AllChars : OrdTable[c] = n
        THEN CHOOSE c \in AllChars : OrdTable[c] = n
        ELSE "?" ]

\* chr(n)
Chr(n) == IF n \in DOMAIN ChrTable THEN ChrTable[n] ELSE "?"

UpperTable ==
    [ c \in AllChars |->
        IF Pos(LowerLetters, c) > 0 THEN eng26_str_upper[Pos(LowerLetters, c)]
        ELSE c ]

\* str.upper() of one character, and of a str.
UpperChar(c) == UpperTable[c]

Upper(s) == [i \in 1..Len(s) |-> UpperChar(s[i])]

\* The texts over a set of characters, up to a length.
Texts(chars, n) == UNION { [1..k -> chars] : k \in 0..n }

\* Python's a % b for b > 0: the result has the sign of b.
PyMod(a, b) == a % b

\* list.index / str.index, 0-based: Ok(position) or ValueError.
PyIndex(s, x) == IF Pos(s, x) > 0 THEN Ok(Pos(s, x) - 1) ELSE Raise("ValueError")

\* s[i] with Python's negative indices: Ok(item) or IndexError.
PyAt(s, i) ==
    IF 0 <= i /\ i < Len(s) THEN Ok(s[i + 1])
    ELSE IF i < 0 /\ -i <= Len(s) THEN Ok(s[Len(s) + i + 1])
    ELSE Raise("IndexError")

\* CryptBase._validate_input_string for a str argument: its upper case.
validate_input_string(value) == Upper(value)

----------------------------------------------------------------------------
(* Caesar (src/ciphers.py:16-125).                                         *)

\* 'A' <= char <= 'Z'
InWindow(char) == Ord("A") <= Ord(char) /\ Ord(char) <= Ord("Z")

\* The window index (ord(char) + shift - ord('A')) % 26, for a truncating
\* remainder: what the expression gives where % takes the dividend's sign.
TruncIndex(char, shift) ==
    LET a == Ord(char) + shift - Ord("A")
    IN  IF a >= 0 THEN a % 26 ELSE -((-a) % 26)

\* The window index of one encrypted or decrypted character.
CaesarIndex(char, shift) == PyMod(Ord(char) + shift - Ord("A"), 26)

CaesarChar(char, shift) ==
    IF InWindow(char) THEN Chr(CaesarIndex(char, shift) + Ord("A")) ELSE char

Caesar_encrypt(shift, msg) ==
    LET m == validate_input_string(msg)
    IN  [i \in 1..Len(m) |-> CaesarChar(m[i], shift.v)]

Caesar_decrypt(shift, msg) ==
    LET m == validate_input_string(msg)
    IN  [i \in 1..Len(m) |-> CaesarChar(m[i], -shift.v)]

CaesarShiftInts ==
    { PyInt(s * (b + k)) : s \in {-1, 1}, b \in {0, 26}, k \in 0..MaxShiftOffset }

CaesarShiftInputs == CaesarShiftInts \cup PyBools \cup NonIntValues

CaesarChars == { "A", "B", "Z", "a", "z", "@", "[" }

CaesarTexts == Texts(CaesarChars, CaesarMaxLen)

\* The helpers' variables before any helper is called.
UtilIdle ==
    /\ u_op = "none"
    /\ u_lang = ""
    /\ u_alphabet = <<>>
    /\ u_cols = 0
    /\ u_key = <<>>
    /\ u_res = Ok(<<>>)

\* The Caesar variables before any Caesar object is made.
CaesarIdle ==
    /\ c_obj = "none"
    /\ c_shift = PyInt(0)
    /\ c_err = ""
    /\ c_pc = "idle"
    /\ c_msg = <<>>
    /\ c_enc = <<>>
    /\ c_dec = <<>>
    /\ c_arg = PyInt(0)

\* The Polybius variables before any PolybiusSquare object is made.
PolyIdle ==
    /\ p_obj = "none"
    /\ p_table = [type |-> "tuple", rows |-> <<>>]
    /\ p_coords = <<>>
    /\ p_err = ""
    /\ p_pc = "idle"
    /\ p_in = <<>>
    /\ p_mid = Ok(<<>>)
    /\ p_out = Ok(<<>>)

\* The Vigenere variables before any Vigenere object is made.
VigIdle ==
    /\ v_obj = "none"
    /\ v_key = <<>>
    /\ v_shift = PyInt(0)
    /\ v_alphabet = <<>>
    /\ v_matrix = <<>>
    /\ v_err = ""
    /\ v_pc = "idle"
    /\ v_in = <<>>
    /\ v_mid = Ok(<<>>)
    /\ v_out = Ok(<<>>)

NoCall == [op |-> "none"]

\* The Playfer / TwoSquare client variables when no such client runs.
BigramIdle ==
    /\ b_key1 = <<>>
    /\ b_key2 = <<>>
    /\ b_lang = ""
    /\ b_in = <<>>
    /\ b_pc = "start"
    /\ b_out = Ok(<<>>)
    /\ b_res = Ok(<<>>)
    /\ b_call = NoCall

InitCaesar ==
    /\ cipher = "Caesar"
    /\ CaesarIdle
    /\ UtilIdle
    /\ PolyIdle
    /\ VigIdle
    /\ BigramIdle

\* Caesar(shift)
CaesarNew(shift) ==
    /\ cipher = "Caesar"
    /\ c_obj = "none"
    /\ IF isinstance_int(shift)
       THEN c_obj' = "live" /\ c_shift' = shift /\ c_err' = ""
       ELSE c_obj' = "failed" /\ c_shift' = c_shift /\ c_err' = "ValueError"
    /\ c_arg' = shift
    /\ UNCHANGED <<cipher, c_pc, c_msg, c_enc, c_dec, notCaesar>>

\* caesar.shift = value
CaesarSetShift(value) ==
    /\ cipher = "Caesar"
    /\ c_obj = "live"
    /\ IF isinstance_int(value)
       THEN c_shift' = value /\ c_err' = ""
       ELSE c_shift' = c_shift /\ c_err' = "ValueError"
    /\ c_arg' = value
    /\ c_pc' = "idle"
    /\ c_msg' = <<>>
    /\ c_enc' = <<>>
    /\ c_dec' = <<>>
    /\ UNCHANGED <<cipher, c_obj, notCaesar>>

\* c_enc = caesar.encrypt(msg)
CaesarEncrypt(msg) ==
    /\ cipher = "Caesar"
    /\ c_obj = "live"
    /\ c_pc = "idle"
    /\ c_msg' = msg
    /\ c_enc' = Caesar_encrypt(c_shift, msg)
    /\ c_dec' = <<>>
    /\ c_pc' = "encrypted"
    /\ c_err' = ""
    /\ UNCHANGED <<cipher, c_obj, c_shift, c_arg, notCaesar>>

\* c_dec = caesar.decrypt(c_enc)
CaesarDecrypt ==
    /\ cipher = "Caesar"
    /\ c_obj = "live"
    /\ c_pc = "encrypted"
    /\ c_dec' = Caesar_decrypt(c_shift, c_enc)
    /\ c_pc' = "decrypted"
    /\ c_err' = ""
    /\ UNCHANGED <<cipher, c_obj, c_shift, c_msg, c_enc, c_arg, notCaesar>>

NextCaesar ==
    \/ \E shift \in CaesarShiftInputs : CaesarNew(shift)
    \/ \E value \in CaesarShiftInputs : CaesarSetShift(value)
    \/ \E msg \in CaesarTexts : CaesarEncrypt(msg)
    \/ CaesarDecrypt

SpecCaesar == InitCaesar /\ [][NextCaesar]_vars

\* C1: Caesar round trip.  Whatever the integer shift (negative, or larger
\* than the alphabet), decrypting the encryption of a text under the same
\* shift gives the text in upper case, and each character of the window
\* 'A'..'Z' is encrypted to a character of the window: its index
\* (ord + shift - ord('A')) % 26 is in [0, 26), never negative.
C1_CaesarRoundTrip ==
    /\ c_pc \in {"encrypted", "decrypted"} =>
          /\ Len(c_enc) = Len(c_msg)
          /\ \A i \in 1..Len(c_msg) :
                InWindow(UpperChar(c_msg[i])) =>
                    /\ InWindow(c_enc[i])
                    /\ Ord(c_enc[i]) - Ord("A") \in 0..25
    /\ c_pc = "decrypted" => c_dec = Upper(c_msg)

\* A round trip of a text with letters of both cases and characters outside
\* the window, under a negative shift beyond the alphabet size.
C1_Witness ==
    /\ c_pc = "decrypted"
    /\ c_shift.v < -26
    /\ c_msg = <<"a", "[">>
    /\ c_enc # Upper(c_msg)

\* C11: Caesar shift validation.  Constructing a Caesar with a shift that is
\* not an integer (a str, a float, None) fails with an error and makes no
\* object; assigning such a value through the shift setter fails with an
\* error and leaves the stored shift as it was; every int is accepted, by
\* both, and becomes the stored shift.
C11_CaesarShiftValidation ==
    [][ /\ (cipher = "Caesar" /\ c_obj = "none" /\ c_obj' # "none")
            => /\ c_arg'.type = "int"
                   => (c_obj' = "live" /\ c_shift' = c_arg' /\ c_err' = "")
               /\ c_arg'.type \in {"str", "float", "NoneType"}
                   => (c_obj' = "failed" /\ c_err' = "ValueError")
        /\ (cipher = "Caesar" /\ c_obj = "live" /\ c_pc' = "idle")
            => /\ c_arg'.type = "int"
                   => (c_shift' = c_arg' /\ c_err' = "")
               /\ c_arg'.type \in {"str", "float", "NoneType"}
                   => (c_shift' = c_shift /\ c_err' = "ValueError")
      ]_vars

\* A float was assigned to the shift of a Caesar made with shift -28: the
\* assignment raised and the shift is still -28.
C11_Witness ==
    /\ c_obj = "live"
    /\ c_pc = "idle"
    /\ c_arg.type = "float"
    /\ c_err = "ValueError"
    /\ c_shift = PyInt(-28)

----------------------------------------------------------------------------
(* The matrix builders and the alphabet registry (src/utils.py,            *)
(* src/cipher_utils.py).  A grid is a sequence of rows, a row a sequence   *)
(* of characters.                                                          *)

\* zip over cols references to one iterator: each row takes the next cols
\* characters, and zip stops at the first row it cannot fill.  zip() of no
\* iterator (cols <= 0) is empty.
ZipChunks(alphabet, cols) ==
    IF cols <= 0 THEN <<>>
    ELSE [ i \in 1..(Len(alphabet) \div cols) |->
             SubSeq(alphabet, (i - 1) * cols + 1, i * cols) ]

\* utils.generate_matrix_by_cols
generate_matrix_by_cols(alphabet, cols) == ZipChunks(alphabet, cols)

\* The chunks of cols + 1 characters.
ChunkOffByOne(alphabet, cols) == ZipChunks(alphabet, cols + 1)

\* cipher_utils.generate_matrix
generate_matrix(alphabet, cols) == ZipChunks(alphabet, cols)

\* The characters of text not in seen, each once, in the order of their
\* first occurrence.
RECURSIVE FirstNotSeen(_, _)
FirstNotSeen(text, seen) ==
    IF text = <<>> THEN <<>>
    ELSE IF Head(text) \in seen THEN FirstNotSeen(Tail(text), seen)
    ELSE <<Head(text)>> \o FirstNotSeen(Tail(text), seen \cup {Head(text)})

\* sorted(set(text), key=text.index): the distinct characters of text in
\* the order of their first occurrence (the sort key is injective).
FirstOccurrences(text) == FirstNotSeen(text, {})

\* [unique[i:i + size] for i in range(0, len(unique), size)], size >= 1
Slices(unique, size) ==
    LET n == Len(unique)
    IN  [ i \in 1..((n + size - 1) \div size) |->
            SubSeq(unique, (i - 1) * size + 1,
                   IF i * size <= n THEN i * size ELSE n) ]

\* The key matrix with the alphabet put before the keyword.
MatrixAlphabetFirst(alphabet, size, key) ==
    Slices(FirstOccurrences(alphabet \o key), size)

\* utils.generate_matrix_by_key, for size >= 1
generate_matrix_by_key(alphabet, size, key) ==
    LET key_text == key \o alphabet
        unique == FirstOccurrences(key_text)
    IN  Slices(unique, size)

\* re.fullmatch("[A-Z]+", value)
is_valid_eng(value) ==
    /\ Len(value) >= 1
    /\ \A i \in 1..Len(value) : value[i] \in Range(eng26_str_upper)

\* utils.is_valid_rus: the character class of its pattern runs from U+8897
\* down to U+643A, so compiling the pattern raises re.error on every call.
is_valid_rus(value) == Raise("re.error")

\* utils.is_supported_language.  `is_valid_eng(key) or ""` is falsy when the
\* key does not match; the second test is read
\* (language == RUSSIAN and is_valid_rus(key)) or "".
is_supported_language(language, key) ==
    IF language = "en" /\ is_valid_eng(key)
    THEN Ok(<<eng25_str_upper, 5>>)
    ELSE IF language = "ru"
         THEN LET r == is_valid_rus(key)
              IN  IF ~r.ok THEN r
                  ELSE IF r.val THEN Ok(<<rus36_str_upper, 6>>)
                  ELSE Raise("ValueError")
         ELSE Raise("ValueError")

\* Concatenation of the rows of a grid.
RECURSIVE Flatten(_)
Flatten(grid) ==
    IF grid = <<>> THEN <<>> ELSE Head(grid) \o Flatten(Tail(grid))

\* The sequences without repetition over a set of characters, up to a length.
Injective(chars, n) ==
    { s \in Texts(chars, n) : \A i, j \in 1..Len(s) : s[i] = s[j] => i = j }

\* Alphabets: sequences of distinct characters, and the stock ones.
UtilAlphabets ==
    Injective({"A", "B", "C", "D"}, MaxAlphabetLen)
        \cup { <<"A", "B", "C", "D", "E", "F">>, eng25_str_upper, eng26_str_upper }

UtilCols == (1..MaxCols) \cup {5}

\* Keywords: with letters of the alphabets, a letter outside them, a lower
\* case letter; and "KEYWORD".
UtilKeys ==
    Texts({"A", "J", "x"}, MaxKeyLen)
        \cup { <<"K", "E", "Y", "W", "O", "R", "D">> }

UtilLanguages == { "en", "ru", "eng", "rus", "fr", "" }

\* Registry keys: Latin capitals, a lower case letter, a digit, and the
\* Cyrillic capitals U+0410 and U+0401.
RegistryKeys == Texts({"A", "J", "a", "1", "U+0410", "U+0401"}, MaxKeyLen)

\* The arguments are drawn first; the helper named by an action is then
\* applied to them.
InitUtil ==
    /\ cipher = "utils"
    /\ CaesarIdle
    /\ PolyIdle
    /\ VigIdle
    /\ BigramIdle
    /\ u_op = "none"
    /\ u_res = Ok(<<>>)
    /\ \/ /\ u_alphabet \in UtilAlphabets
          /\ u_cols \in UtilCols
          /\ u_key \in UtilKeys
          /\ u_lang = ""
       \/ /\ u_alphabet = <<>>
          /\ u_cols = 0
          /\ u_key \in RegistryKeys
          /\ u_lang \in UtilLanguages

\* utils.generate_matrix_by_cols(alphabet, cols)
GenerateMatrixByCols ==
    /\ cipher = "utils"
    /\ u_op = "none"
    /\ u_cols >= 1
    /\ u_op' = "generate_matrix_by_cols"
    /\ u_res' = Ok(generate_matrix_by_cols(u_alphabet, u_cols))
    /\ UNCHANGED <<cipher, u_lang, u_alphabet, u_cols, u_key, notUtil>>

\* cipher_utils.generate_matrix(alphabet, cols)
GenerateMatrix ==
    /\ cipher = "utils"
    /\ u_op = "none"
    /\ u_cols >= 1
    /\ u_op' = "generate_matrix"
    /\ u_res' = Ok(generate_matrix(u_alphabet, u_cols))
    /\ UNCHANGED <<cipher, u_lang, u_alphabet, u_cols, u_key, notUtil>>

\* utils.generate_matrix_by_key(alphabet, size, key)
GenerateMatrixByKey ==
    /\ cipher = "utils"
    /\ u_op = "none"
    /\ u_cols >= 1
    /\ u_op' = "generate_matrix_by_key"
    /\ u_res' = Ok(generate_matrix_by_key(u_alphabet, u_cols, u_key))
    /\ UNCHANGED <<cipher, u_lang, u_alphabet, u_cols, u_key, notUtil>>

\* utils.is_supported_language(language, key)
IsSupportedLanguage ==
    /\ cipher = "utils"
    /\ u_op = "none"
    /\ u_cols = 0
    /\ u_op' = "is_supported_language"
    /\ u_res' = is_supported_language(u_lang, u_key)
    /\ UNCHANGED <<cipher, u_lang, u_alphabet, u_cols, u_key, notUtil>>

NextUtil ==
    \/ GenerateMatrixByCols
    \/ GenerateMatrix
    \/ GenerateMatrixByKey
    \/ IsSupportedLanguage

SpecUtil == InitUtil /\ [][NextUtil]_vars

\* C7: alphabet registry.  is_supported_language(language, key) returns the
\* 25-letter Latin alphabet and 5 for "en", and a 36-character alphabet and
\* 6 for "ru", whenever the key is empty or consists only of that
\* language's capital letters; for every other language and every other key
\* it raises.
C7_RegistryResolves ==
    u_op = "is_supported_language" =>
        LET latin == \A i \in 1..Len(u_key) : u_key[i] \in Range(eng26_str_upper)
            cyrillic == \A i \in 1..Len(u_key) : u_key[i] \in {"U+0410", "U+0401"}
        IN  IF u_lang = "en" /\ latin
            THEN u_res = Ok(<<eng25_str_upper, 5>>)
            ELSE IF u_lang = "ru" /\ cyrillic
                 THEN /\ u_res.ok
                      /\ Len(u_res.val[1]) = 36
                      /\ u_res.val[2] = 6
                 ELSE ~u_res.ok

\* C8: keyword-seeded construction.  The concatenated rows of
\* generate_matrix_by_key hold every character of the alphabet exactly once
\* and no character twice; the distinct characters of the keyword come
\* first, in the order of their first occurrence; the other characters of
\* the alphabet follow in alphabet order; the rows are slices of the width
\* (the last one may be shorter), and with an empty keyword they are the
\* slices of the alphabet itself.
C8_KeyMatrix ==
    u_op = "generate_matrix_by_key" =>
        LET rows == u_res.val
            flat == Flatten(rows)
            k == Cardinality(Range(u_key))
        IN  /\ u_res.ok
            /\ \A c \in Range(u_alphabet) :
                  Cardinality({ i \in 1..Len(flat) : flat[i] = c }) = 1
            /\ \A i, j \in 1..Len(flat) : flat[i] = flat[j] => i = j
            /\ Range(flat) = Range(u_key) \cup Range(u_alphabet)
            /\ \A i \in 1..k : flat[i] \in Range(u_key)
            /\ \A i, j \in 1..k : i < j => Pos(u_key, flat[i]) < Pos(u_key, flat[j])
            /\ \A i, j \in (k + 1)..Len(flat) :
                  i < j => Pos(u_alphabet, flat[i]) < Pos(u_alphabet, flat[j])
            /\ \A r \in 1..Len(rows) :
                  IF r < Len(rows) THEN Len(rows[r]) = u_cols
                  ELSE Len(rows[r]) \in 1..u_cols
            /\ u_key = <<>> => flat = u_alphabet

\* The 26 letters keyed by "KEYWORD", five to a row: K, E, Y, W, O, R, D
\* come first, the letter Z is alone in the sixth row.
C8_Witness ==
    /\ u_op = "generate_matrix_by_key"
    /\ u_key = <<"K", "E", "Y", "W", "O", "R", "D">>
    /\ u_alphabet = eng26_str_upper
    /\ u_cols = 5
    /\ SubSeq(Flatten(u_res.val), 1, 8) = <<"K", "E", "Y", "W", "O", "R", "D", "A">>
    /\ Len(u_res.val) = 6

\* C9: chunked construction.  For an alphabet whose length N is a multiple
\* of the column count C, generate_matrix and generate_matrix_by_cols
\* return N / C rows of C characters each, whose concatenation is the
\* alphabet in its order.
C9_ChunkedMatrix ==
    (/\ u_op \in {"generate_matrix", "generate_matrix_by_cols"}
     /\ Len(u_alphabet) % u_cols = 0) =>
        /\ u_res.ok
        /\ Len(u_res.val) * u_cols = Len(u_alphabet)
        /\ \A r \in 1..Len(u_res.val) : Len(u_res.val[r]) = u_cols
        /\ Flatten(u_res.val) = u_alphabet

\* generate_matrix("ABCDEF", 2) is (A, B), (C, D), (E, F).
C9_Witness ==
    /\ u_op = "generate_matrix"
    /\ u_alphabet = <<"A", "B", "C", "D", "E", "F">>
    /\ u_cols = 2
    /\ u_res.val = << <<"A", "B">>, <<"C", "D">>, <<"E", "F">> >>

\* C10: chunked construction of an alphabet whose length is not a multiple
\* of the column count.  The builder raises, or pads the last row: its
\* rows all have the column count and hold every character of the
\* alphabet.
C10_PadsOrRaises ==
    (/\ u_op \in {"generate_matrix", "generate_matrix_by_cols"}
     /\ Len(u_alphabet) % u_cols # 0) =>
        \/ ~u_res.ok
        \/ /\ \A r \in 1..Len(u_res.val) : Len(u_res.val[r]) = u_cols
           /\ Range(u_alphabet) \subseteq Range(Flatten(u_res.val))


----------------------------------------------------------------------------
(* PolybiusSquare (src/ciphers.py:128-270).                                *)
(* A table is [type, rows], a row [type, cells], a cell [type, s]: the     *)
(* Python type of each ("list", "tuple", "str", "int") and, for a str      *)
(* cell, its characters.                                                   *)

StrCell(c) == [type |-> "str", s |-> <<c>>]

WordCell(w) == [type |-> "str", s |-> w]

IntCell == [type |-> "int", s |-> <<>>]

RowOf(type, chars) ==
    [type |-> type, cells |-> [i \in 1..Len(chars) |-> StrCell(chars[i])]]

TableOf(type, grid) ==
    [type |-> type, rows |-> [i \in 1..Len(grid) |-> RowOf(type, grid[i])]]

\* cipher_utils.eng25_matrix_upper: a tuple of five tuples.
eng25_matrix_upper == TableOf("tuple", generate_matrix(eng25_str_upper, 5))

\* The decimal digits of n >= 0, as str(n) and an f-string give them.
RECURSIVE DecStr(_)
DecStr(n) ==
    IF n < 10 THEN <<digits[n + 1]>>
    ELSE DecStr(n \div 10) \o <<digits[(n % 10) + 1]>>

\* int(c) of one character: Ok(value) or ValueError.
PyIntOf(c) ==
    IF Pos(digits, c) > 0 THEN Ok(Pos(digits, c) - 1) ELSE Raise("ValueError")

TableCells(table) ==
    UNION { Range(table.rows[r].cells) : r \in 1..Len(table.rows) }

\* The coordinate map that puts the column before the row.
CoordsTransposed(table) ==
    [ cell \in TableCells(table) |->
        LET r == CHOOSE r \in 1..Len(table.rows) :
                    /\ cell \in Range(table.rows[r].cells)
                    /\ \A q \in 1..Len(table.rows) :
                          cell \in Range(table.rows[q].cells) => q <= r
        IN  <<Pos(table.rows[r].cells, cell) - 1, r - 1>> ]

\* PolybiusSquare._get_coords: a dict comprehension over the rows in
\* order, so a cell found in several rows keeps the last of them, with the
\* first column it has there.
get_coords(table) ==
    [ cell \in TableCells(table) |->
        LET r == CHOOSE r \in 1..Len(table.rows) :
                    /\ cell \in Range(table.rows[r].cells)
                    /\ \A q \in 1..Len(table.rows) :
                          cell \in Range(table.rows[q].cells) => q <= r
        IN  <<r - 1, Pos(table.rows[r].cells, cell) - 1>> ]

\* The test of the table setter: every row a list, every cell a str.
TableAccepted(table) ==
    \A r \in 1..Len(table.rows) :
        /\ table.rows[r].type = "list"
        /\ \A k \in 1..Len(table.rows[r].cells) :
              table.rows[r].cells[k].type = "str"

\* "".join of f"{row}{col}" for the characters of m found in coords.
RECURSIVE EncryptChars(_, _)
EncryptChars(coords, m) ==
    IF m = <<>> THEN <<>>
    ELSE (IF StrCell(Head(m)) \in DOMAIN coords
          THEN DecStr(coords[StrCell(Head(m))][1])
                   \o DecStr(coords[StrCell(Head(m))][2])
          ELSE <<>>) \o EncryptChars(coords, Tail(m))

\* PolybiusSquare.encrypt
Polybius_encrypt(coords, msg) == EncryptChars(coords, validate_input_string(msg))

\* self._table[int(msg[i])][int(msg[i+1])]: Ok(cell) or the exception.
LookupPair(table, a, b) ==
    LET r == PyIntOf(a)
        c == PyIntOf(b)
    IN  IF ~r.ok THEN r
        ELSE IF ~c.ok THEN c
        ELSE IF r.val >= Len(table.rows) THEN Raise("IndexError")
        ELSE PyAt(table.rows[r.val + 1].cells, c.val)

\* The cells of the pairs of m from position i on, or the first exception.
RECURSIVE DecryptPairs(_, _, _)
DecryptPairs(table, m, i) ==
    IF i > Len(m) THEN Ok(<<>>)
    ELSE LET cell == LookupPair(table, m[i], m[i + 1])
         IN  IF ~cell.ok THEN cell
             ELSE LET rest == DecryptPairs(table, m, i + 2)
                  IN  IF ~rest.ok THEN rest
                      ELSE Ok(<<cell.val>> \o rest.val)

RECURSIVE JoinCells(_)
JoinCells(cells) ==
    IF cells = <<>> THEN <<>> ELSE Head(cells).s \o JoinCells(Tail(cells))

\* A decrypt that leaves out the last character of an odd-length input.
DecryptEvenPrefix(table, msg) ==
    LET m == validate_input_string(msg)
        cells == DecryptPairs(table, SubSeq(m, 1, 2 * (Len(m) \div 2)), 1)
    IN  IF ~cells.ok THEN cells
        ELSE IF \E k \in 1..Len(cells.val) : cells.val[k].type # "str"
             THEN Raise("TypeError")
             ELSE Ok(JoinCells(cells.val))

\* PolybiusSquare.decrypt: join collects every item of the generator, then
\* refuses an item that is not a str.
Polybius_decrypt(table, msg) ==
    LET m == validate_input_string(msg)
    IN  IF Len(m) % 2 # 0 THEN Raise("ValueError")
        ELSE LET cells == DecryptPairs(table, m, 1)
             IN  IF ~cells.ok THEN cells
                 ELSE IF \E k \in 1..Len(cells.val) : cells.val[k].type # "str"
                      THEN Raise("TypeError")
                      ELSE Ok(JoinCells(cells.val))

ListRow(cells) == [type |-> "list", cells |-> cells]

\* Tables of str cells given to the constructor and to the setter: the
\* default; lists of lists of distinct capitals (square, ragged, one row of
\* eleven cells); with a character twice; with a lower case letter; with a
\* two-character cell.
PolyStrTables ==
    { eng25_matrix_upper,
      TableOf("list", << <<"A", "B">>, <<"D", "Z">> >>),
      TableOf("list", << <<"A", "B", "D">>, <<"Z">> >>),
      TableOf("list", << SubSeq(eng25_str_upper, 2, 11) \o <<"A">> >>),
      TableOf("list", << <<"A", "B">>, <<"B", "D">> >>),
      TableOf("list", << <<"a", "B">>, <<"D", "Z">> >>),
      [type |-> "list",
       rows |-> << ListRow(<<WordCell(<<"A", "B">>), StrCell("D")>>) >>] }

\* Tables given to the setter only: with an int cell, and a list of two str
\* rows.
PolyOtherTables ==
    { [type |-> "list",
       rows |-> << ListRow(<<StrCell("A"), IntCell>>) >>],
      [type |-> "list",
       rows |-> << RowOf("str", <<"A", "B">>), RowOf("str", <<"D", "Z">>) >>] }

PolyTables == PolyStrTables \cup PolyOtherTables

PolyChars == { "A", "B", "Z", "a", "J", " " }

PolyTexts == Texts(PolyChars, PolyMaxLen)

\* Texts given to decrypt: digits inside and outside the grids, and a letter.
PolyDigitChars == { "0", "1", "5", "A" }

PolyDigitTexts == Texts(PolyDigitChars, PolyMaxDigits)

InitPolybius ==
    /\ cipher = "PolybiusSquare"
    /\ CaesarIdle
    /\ UtilIdle
    /\ PolyIdle
    /\ VigIdle
    /\ BigramIdle

\* PolybiusSquare(table): no test of the table.
PolybiusNew(table) ==
    /\ cipher = "PolybiusSquare"
    /\ p_obj = "none"
    /\ p_obj' = "live"
    /\ p_table' = table
    /\ p_coords' = get_coords(table)
    /\ UNCHANGED <<cipher, p_err, p_pc, p_in, p_mid, p_out, notPoly>>

\* polybius.table = table
PolybiusSetTable(table) ==
    /\ cipher = "PolybiusSquare"
    /\ p_obj = "live"
    /\ IF TableAccepted(table)
       THEN /\ p_table' = table
            /\ p_coords' = get_coords(table)
            /\ p_err' = ""
       ELSE /\ p_err' = "ValueError"
            /\ UNCHANGED <<p_table, p_coords>>
    /\ p_pc' = "idle"
    /\ p_in' = <<>>
    /\ p_mid' = Ok(<<>>)
    /\ p_out' = Ok(<<>>)
    /\ UNCHANGED <<cipher, p_obj, notPoly>>

\* p_mid = polybius.encrypt(msg)
PolybiusEncrypt(msg) ==
    /\ cipher = "PolybiusSquare"
    /\ p_obj = "live"
    /\ p_pc = "idle"
    /\ p_in' = msg
    /\ p_mid' = Ok(Polybius_encrypt(p_coords, msg))
    /\ p_out' = Ok(<<>>)
    /\ p_pc' = "encrypted"
    /\ UNCHANGED <<cipher, p_obj, p_table, p_coords, p_err, notPoly>>

\* p_out = polybius.decrypt(p_mid)
PolybiusDecryptEncrypted ==
    /\ cipher = "PolybiusSquare"
    /\ p_obj = "live"
    /\ p_pc = "encrypted"
    /\ p_out' = Polybius_decrypt(p_table, p_mid.val)
    /\ p_pc' = "decrypted"
    /\ UNCHANGED <<cipher, p_obj, p_table, p_coords, p_err, p_in, p_mid, notPoly>>

\* p_mid = polybius.decrypt(msg)
PolybiusDecrypt(msg) ==
    /\ cipher = "PolybiusSquare"
    /\ p_obj = "live"
    /\ p_pc = "idle"
    /\ p_in' = msg
    /\ p_mid' = Polybius_decrypt(p_table, msg)
    /\ p_out' = Ok(<<>>)
    /\ p_pc' = "decoded"
    /\ UNCHANGED <<cipher, p_obj, p_table, p_coords, p_err, notPoly>>

\* p_out = polybius.encrypt(p_mid), when decrypt returned
PolybiusEncryptDecrypted ==
    /\ cipher = "PolybiusSquare"
    /\ p_obj = "live"
    /\ p_pc = "decoded"
    /\ p_mid.ok
    /\ p_out' = Ok(Polybius_encrypt(p_coords, p_mid.val))
    /\ p_pc' = "recoded"
    /\ UNCHANGED <<cipher, p_obj, p_table, p_coords, p_err, p_in, p_mid, notPoly>>

NextPolybius ==
    \/ \E table \in PolyStrTables : PolybiusNew(table)
    \/ \E table \in PolyTables : PolybiusSetTable(table)
    \/ \E msg \in PolyTexts : PolybiusEncrypt(msg)
    \/ PolybiusDecryptEncrypted
    \/ \E msg \in PolyDigitTexts : PolybiusDecrypt(msg)
    \/ PolybiusEncryptDecrypted

SpecPolybius == InitPolybius /\ [][NextPolybius]_vars

\* Whether msg is an even-length string of digits whose pairs are all
\* coordinates of a cell of the table.
ValidCoordinates(table, msg) ==
    /\ Len(msg) % 2 = 0
    /\ \A i \in 1..Len(msg) : msg[i] \in Range(digits)
    /\ \A k \in 1..(Len(msg) \div 2) :
          LET r == Pos(digits, msg[2 * k - 1]) - 1
              c == Pos(digits, msg[2 * k]) - 1
          IN  /\ r < Len(table.rows)
              /\ c < Len(table.rows[r + 1].cells)

\* The upper case of msg without the characters that are no cell of the table.
RECURSIVE KeepTableChars(_, _)
KeepTableChars(table, m) ==
    IF m = <<>> THEN <<>>
    ELSE (IF StrCell(Head(m)) \in TableCells(table) THEN <<Head(m)>> ELSE <<>>)
             \o KeepTableChars(table, Tail(m))

FilteredUpper(table, msg) == KeepTableChars(table, Upper(msg))

\* A table has single-digit coordinates when it has at most 10 rows of at
\* most 10 cells.
SingleDigitGrid(table) ==
    /\ Len(table.rows) <= 10
    /\ \A r \in 1..Len(table.rows) : Len(table.rows[r].cells) <= 10

\* Every cell is one character that is its own upper case, and no
\* character is in two cells.
DistinctCapitalCells(table) ==
    /\ \A cell \in TableCells(table) :
          /\ cell.type = "str"
          /\ Len(cell.s) = 1
          /\ UpperChar(cell.s[1]) = cell.s[1]
    /\ \A r1, r2 \in 1..Len(table.rows) :
          \A k1 \in 1..Len(table.rows[r1].cells), k2 \in 1..Len(table.rows[r2].cells) :
              table.rows[r1].cells[k1] = table.rows[r2].cells[k2]
                  => (r1 = r2 /\ k1 = k2)

\* encrypt(decrypt(D)) == D for the valid coordinate strings D of the table.
DecryptThenEncrypt ==
    (p_pc \in {"decoded", "recoded"} /\ ValidCoordinates(p_table, p_in)) =>
        /\ p_mid.ok
        /\ p_pc = "recoded" => p_out = Ok(p_in)

\* decrypt(encrypt(T)) == upper(T) without the characters absent from the table.
EncryptThenDecrypt ==
    p_pc = "decrypted" => p_out = Ok(FilteredUpper(p_table, p_in))

C3_WitnessFiltered ==
    /\ p_pc = "decrypted"
    /\ p_table = eng25_matrix_upper
    /\ p_in = <<"a", "J">>
    /\ p_mid = Ok(<<"0", "0">>)
    /\ p_out = Ok(<<"A">>)

\* Every row of the table is a sequence of single characters.
RowsOfSingleCharacters(table) ==
    \A r \in 1..Len(table.rows) :
        \A k \in 1..Len(table.rows[r].cells) :
            /\ table.rows[r].cells[k].type = "str"
            /\ Len(table.rows[r].cells[k].s) = 1

\* C14: Polybius table validation.  Assigning a table with a row that is not
\* a sequence of single characters (a cell of two characters, a cell that is
\* no str) raises and leaves the table and the coordinate map as they were;
\* assigning a table whose rows are sequences of single characters, the
\* tuple of tuples of the default table included, stores it.
C14_PolybiusTableValidation ==
    [][ \A table \in PolyTables :
            PolybiusSetTable(table)
                => IF RowsOfSingleCharacters(table)
                   THEN p_table' = table /\ p_coords' = get_coords(table) /\ p_err' = ""
                   ELSE p_err' = "ValueError" /\ UNCHANGED <<p_table, p_coords>>
      ]_vars

\* C12: Polybius decrypt refuses malformed input as a whole.  It raises, and
\* returns nothing, when the input has odd length (ValueError), holds a
\* character that is no digit (ValueError) or a pair of digits that is no
\* (row, column) of the table (IndexError); it returns exactly when the
\* input has even length and every pair is a coordinate of the table.
C12_PolybiusDecryptAtomic ==
    (p_obj = "live" /\ p_pc \in {"decoded", "recoded"})
        => /\ p_mid.ok <=> ValidCoordinates(p_table, Upper(p_in))
           /\ ~p_mid.ok => /\ p_mid.val = <<>>
                           /\ p_mid.err \in {"ValueError", "IndexError"}
           /\ Len(p_in) % 2 = 1 => p_mid = Raise("ValueError")
           /\ (/\ Len(p_in) % 2 = 0
               /\ \A i \in 1..Len(p_in) : p_in[i] \in Range(digits)
               /\ ~ValidCoordinates(p_table, p_in)) => p_mid = Raise("IndexError")

\* On the default table of five rows, "0055" starts with the coordinates of
\* 'A' and ends with a pair outside the table: decrypt raises IndexError.
C12_Witness ==
    /\ p_pc = "decoded"
    /\ p_table = eng25_matrix_upper
    /\ p_in = <<"0", "0", "5", "5">>
    /\ p_mid = Raise("IndexError")


----------------------------------------------------------------------------
(* Vigenere (src/ciphers.py:273-486).                                      *)

\* s[a:] and s[:a] with Python's clamping of the bound.
SliceBound(s, a) ==
    IF a < 0 THEN (IF Len(s) + a < 0 THEN 0 ELSE Len(s) + a)
    ELSE IF a > Len(s) THEN Len(s) ELSE a

PySliceFrom(s, a) == SubSeq(s, SliceBound(s, a) + 1, Len(s))

PySliceTo(s, a) == SubSeq(s, 1, SliceBound(s, a))

\* Vigenere._shift_alphabet
shift_alphabet(shift) ==
    PySliceFrom(eng26_str_upper, shift.v) \o PySliceTo(eng26_str_upper, shift.v)

\* The sort key of _generate_matrix: key.index(x) if x in key else
\* alphabet.index(x).
VigSortKey(key, alphabet, x) ==
    IF x \in Range(key) THEN Pos(key, x) - 1 ELSE Pos(alphabet, x) - 1

\* sorted(set(key + alphabet), key=...): the sort is stable over the
\* iteration order of a set of str, which the hash seed of the process
\* decides; so characters with equal sort keys come in either order.  The
\* orders the call can return:
UniqueCharOrders(key, alphabet) ==
    LET chars == Range(key) \cup Range(alphabet)
        n == Cardinality(chars)
        sk == [x \in chars |-> VigSortKey(key, alphabet, x)]
        \* how many characters have a smaller sort key than x
        before == [x \in chars |-> Cardinality({ y \in chars : sk[y] < sk[x] })]
        \* a tie holds two characters: one of the key, one not
        tiedKeyChars ==
            { x \in Range(key) : \E y \in chars \ Range(key) : sk[y] = sk[x] }
        \* first[x] says whether the key's character x comes first in its tie
        place(first) ==
            [x \in chars |->
                before[x] +
                    (IF x \in Range(key)
                     THEN (IF x \in tiedKeyChars /\ ~first[x] THEN 2 ELSE 1)
                     ELSE (IF \E y \in tiedKeyChars : sk[y] = sk[x] /\ first[y]
                           THEN 2 ELSE 1))]
    IN  { LET pl == place(first)
          IN  [i \in 1..n |-> CHOOSE x \in chars : pl[x] = i]
          : first \in [tiedKeyChars -> BOOLEAN] }

\* [list(unique_chars[-i:] + unique_chars[:-i]) for i in range(len, 0, -1)]:
\* the row for i is the last i characters, then the first len - i.
MatrixRows(unique_chars) ==
    LET n == Len(unique_chars)
    IN  [ j \in 1..n |->
            LET i == n - (j - 1)
            IN  SubSeq(unique_chars, n - i + 1, n) \o SubSeq(unique_chars, 1, n - i) ]

\* The matrices Vigenere._generate_matrix can return.
generate_vigenere_matrix(key, alphabet) ==
    { MatrixRows(u) : u \in UniqueCharOrders(key, alphabet) }

\* [row.index(c) for c in text]: Ok(indices) or ValueError.
IndicesIn(row, text) ==
    IF \A i \in 1..Len(text) : Pos(row, text[i]) > 0
    THEN Ok([i \in 1..Len(text) |-> Pos(row, text[i]) - 1])
    ELSE Raise("ValueError")

\* Vigenere.encrypt
Vigenere_encrypt(matrix, key, msg) ==
    LET m == validate_input_string(msg)
        msg_ind == IndicesIn(matrix[1], m)
        key_ind == IndicesIn(matrix[1], key)
    IN  IF ~msg_ind.ok THEN msg_ind
        ELSE IF ~key_ind.ok THEN key_ind
        ELSE IF Len(msg_ind.val) > 0 /\ Len(key_ind.val) = 0
             THEN Raise("ZeroDivisionError")
        ELSE Ok([ i \in 1..Len(m) |->
                   LET adj == key_ind.val[PyMod(i - 1, Len(key_ind.val)) + 1]
                   IN  matrix[msg_ind.val[i] + 1][adj + 1] ])

\* Vigenere.decrypt
Vigenere_decrypt(matrix, key, msg) ==
    LET m == validate_input_string(msg)
        key_ind == IndicesIn(matrix[1], key)
        adj(i) == key_ind.val[PyMod(i - 1, Len(key_ind.val)) + 1]
    IN  IF ~key_ind.ok THEN key_ind
        ELSE IF Len(m) > 0 /\ Len(key_ind.val) = 0 THEN Raise("ZeroDivisionError")
        ELSE IF \E i \in 1..Len(m) : Pos(matrix[adj(i) + 1], m[i]) = 0
             THEN Raise("ValueError")
        ELSE Ok([ i \in 1..Len(m) |->
                   matrix[1][Pos(matrix[adj(i) + 1], m[i])] ])

\* Keys: empty, one letter, two letters, one with a lower case letter.
VigKeys == { <<>>, <<"A">>, <<"C", "A">>, <<"A", "c">> }

VigShifts == { PyInt(0), PyInt(2), PyInt(-1), PyInt(27) }

\* A key assigned through the setter: a str, or a value of another type.
VigKeyInputs ==
    { [type |-> "str", s |-> k] : k \in VigKeys } \cup { [type |-> "int", s |-> <<>>] }

VigShiftInputs == VigShifts \cup NonIntValues

VigChars == { "A", "B", "z" }

VigTexts == Texts(VigChars, VigMaxLen)

InitVigenere ==
    /\ cipher = "Vigenere"
    /\ CaesarIdle
    /\ UtilIdle
    /\ PolyIdle
    /\ VigIdle
    /\ BigramIdle

\* Vigenere(key, shift)
VigenereNew(key, shift) ==
    /\ cipher = "Vigenere"
    /\ v_obj = "none"
    /\ v_obj' = "live"
    /\ v_key' = key
    /\ v_shift' = shift
    /\ v_alphabet' = shift_alphabet(shift)
    /\ v_matrix' \in generate_vigenere_matrix(key, shift_alphabet(shift))
    /\ UNCHANGED <<cipher, v_err, v_pc, v_in, v_mid, v_out, notVig>>

\* vigenere.key = key: the matrix is not generated again.
VigenereSetKey(key) ==
    /\ cipher = "Vigenere"
    /\ v_obj = "live"
    /\ IF key.type = "str"
       THEN v_key' = key.s /\ v_err' = ""
       ELSE v_key' = v_key /\ v_err' = "ValueError"
    /\ v_pc' = "idle"
    /\ v_in' = <<>>
    /\ v_mid' = Ok(<<>>)
    /\ v_out' = Ok(<<>>)
    /\ UNCHANGED <<cipher, v_obj, v_shift, v_alphabet, v_matrix, notVig>>

\* vigenere.shift = shift: the alphabet is shifted again, the matrix is
\* not generated again.
VigenereSetShift(shift) ==
    /\ cipher = "Vigenere"
    /\ v_obj = "live"
    /\ IF isinstance_int(shift)
       THEN /\ v_shift' = shift
            /\ v_alphabet' = shift_alphabet(shift)
            /\ v_err' = ""
       ELSE /\ v_err' = "ValueError"
            /\ UNCHANGED <<v_shift, v_alphabet>>
    /\ v_pc' = "idle"
    /\ v_in' = <<>>
    /\ v_mid' = Ok(<<>>)
    /\ v_out' = Ok(<<>>)
    /\ UNCHANGED <<cipher, v_obj, v_key, v_matrix, notVig>>

\* v_mid = vigenere.encrypt(msg)
VigenereEncrypt(msg) ==
    /\ cipher = "Vigenere"
    /\ v_obj = "live"
    /\ v_pc = "idle"
    /\ v_in' = msg
    /\ v_mid' = Vigenere_encrypt(v_matrix, v_key, msg)
    /\ v_out' = Ok(<<>>)
    /\ v_pc' = "encrypted"
    /\ UNCHANGED <<cipher, v_obj, v_key, v_shift, v_alphabet, v_matrix, v_err, notVig>>

\* v_out = vigenere.decrypt(v_mid), when encrypt returned
VigenereDecrypt ==
    /\ cipher = "Vigenere"
    /\ v_obj = "live"
    /\ v_pc = "encrypted"
    /\ v_mid.ok
    /\ v_out' = Vigenere_decrypt(v_matrix, v_key, v_mid.val)
    /\ v_pc' = "decrypted"
    /\ UNCHANGED <<cipher, v_obj, v_key, v_shift, v_alphabet, v_matrix, v_err,
                   v_in, v_mid, notVig>>

NextVigenere ==
    \/ \E key \in VigKeys, shift \in VigShifts : VigenereNew(key, shift)
    \/ \E key \in VigKeyInputs : VigenereSetKey(key)
    \/ \E shift \in VigShiftInputs : VigenereSetShift(shift)
    \/ \E msg \in VigTexts : VigenereEncrypt(msg)
    \/ VigenereDecrypt

SpecVigenere == InitVigenere /\ [][NextVigenere]_vars

\* The matrix is one that _generate_matrix can return for the key and the
\* alphabet: its first row holds each of their characters once, in the order
\* of the sort keys, and the rows are the rotations of the first.
GeneratedFrom(matrix, key, alphabet) ==
    /\ Len(matrix) = Cardinality(Range(key) \cup Range(alphabet))
    /\ LET u == matrix[1]
       IN  /\ Len(u) = Len(matrix)
           /\ Range(u) = Range(key) \cup Range(alphabet)
           /\ \A i \in 1..(Len(u) - 1) :
                  VigSortKey(key, alphabet, u[i]) <= VigSortKey(key, alphabet, u[i + 1])
           /\ matrix = MatrixRows(u)

\* The two descriptions of the generated matrices agree.
GeneratedFromAgrees ==
    (v_obj = "live" /\ v_pc = "idle")
        => (GeneratedFrom(v_matrix, v_key, v_alphabet)
               <=> v_matrix \in generate_vigenere_matrix(v_key, v_alphabet))

\* The text is drawn from the configured alphabet, in either case.
VigTextInAlphabet == \A i \in 1..Len(v_in) : UpperChar(v_in[i]) \in Range(v_alphabet)

\* C2: for every key and every text drawn from the configured alphabet,
\* encrypt returns and decrypt of what it returned is the text in upper case.
C2_VigenereRoundTrip ==
    (v_obj = "live" /\ v_pc \in {"encrypted", "decrypted"} /\ VigTextInAlphabet)
        => /\ v_mid.ok
           /\ v_pc = "decrypted" => v_out = Ok(Upper(v_in))

\* The round trip does hold for a key of capital letters, not empty, on the
\* matrix generated from that key.
VigenereRoundTripCapitalKey ==
    (/\ v_obj = "live" /\ v_pc = "decrypted"
     /\ v_key # <<>> /\ Range(v_key) \subseteq Range(eng26_str_upper)
     /\ GeneratedFrom(v_matrix, v_key, v_alphabet))
        => v_out = Ok(Upper(v_in))

\* C6: whenever a Vigenere object is live, its alphabet is the one the shift
\* gives and its matrix is one generated from its key and its alphabet.
C6_DerivedStateConsistent ==
    v_obj = "live"
        => /\ v_alphabet = shift_alphabet(v_shift)
           /\ GeneratedFrom(v_matrix, v_key, v_alphabet)

\* The sequence rotated left by i positions.
RotatedLeft(seq, i) ==
    [ k \in 1..Len(seq) |-> seq[((k - 1 + i) % Len(seq)) + 1] ]

\* The matrix is the one the claim describes for the key and the alphabet.
KeyedTabulaRecta(matrix, key, alphabet) ==
    LET row0 == FirstOccurrences(key \o alphabet)
    IN  /\ Len(matrix) = Len(row0)
        /\ \A i \in 1..Len(matrix) : matrix[i] = RotatedLeft(row0, i - 1)

\* C17: the matrix a Vigenere is made with has, as row 0, the distinct
\* characters of the key in key order and then the other characters of the
\* rotated alphabet in its order, each once; it has as many rows as row 0
\* has characters, row i being row 0 rotated left by i; and generating it
\* again from the same key and shift gives the same matrix.
C17_VigenereMatrixStructure ==
    [][ (cipher = "Vigenere" /\ v_obj = "none" /\ v_obj' = "live")
            => /\ KeyedTabulaRecta(v_matrix', v_key', v_alphabet')
               /\ generate_vigenere_matrix(v_key', v_alphabet') = {v_matrix'}
      ]_vars

\* What does hold of the matrix a Vigenere is made with: it is square, its
\* rows are the rotations of row 0, and row 0 holds each character of the key
\* and the alphabet once.
VigenereMatrixRotations ==
    [][ (cipher = "Vigenere" /\ v_obj = "none" /\ v_obj' = "live")
            => /\ Len(v_matrix') = Cardinality(Range(v_key') \cup Range(v_alphabet'))
               /\ \A i \in 1..Len(v_matrix') :
                      v_matrix'[i] = RotatedLeft(v_matrix'[1], i - 1)
               /\ Range(v_matrix'[1]) = Range(v_key') \cup Range(v_alphabet')
      ]_vars

----------------------------------------------------------------------------
(* Playfer (src/ciphers.py:489-682), TwoSquare (src/ciphers.py:685-710)    *)
(* and CryptBigramsBase (src/crypt_bigrams_base.py).                       *)

\* The name is_english, which both constructors call first: no module of
\* the repository defines it, so evaluating it raises NameError.
is_english(language) == Raise("NameError")

\* _find_position(char, matrix), of CryptBigramsBase and of Playfer alike:
\* the first row holding the character and its index there, else (-1, -1).
find_position(char, matrix) ==
    IF \E i \in 1..Len(matrix) : Pos(matrix[i], char) > 0
    THEN LET i == CHOOSE i \in 1..Len(matrix) :
                      /\ Pos(matrix[i], char) > 0
                      /\ \A j \in 1..(i - 1) : Pos(matrix[j], char) = 0
         IN  <<i - 1, Pos(matrix[i], char) - 1>>
    ELSE <<-1, -1>>

\* CryptBigramsBase._process_pair: inside the class body the name
\* __find_position is mangled to _CryptBigramsBase__find_position, an
\* attribute the class does not have, so the first lookup raises.
process_pair(char1, char2, matrix1, matrix2, direction, size) ==
    Raise("AttributeError")

\* matrix[row][col] with Python's indices: Ok(cell) or IndexError.
MatrixAt(matrix, row, col) ==
    LET r == PyAt(matrix, row)
    IN  IF ~r.ok THEN r ELSE PyAt(r.val, col)

\* A pair processing that shifts the columns in the rectangle case too.
ProcessPairShiftsRectangle(matrix, size, char1, char2, direction) ==
    LET p1 == find_position(char1, matrix)
        p2 == find_position(char2, matrix)
        a == MatrixAt(matrix, p1[1], PyMod(p2[2] + direction, size))
        b == MatrixAt(matrix, p2[1], PyMod(p1[2] + direction, size))
    IN  IF ~a.ok THEN a ELSE IF ~b.ok THEN b ELSE Ok(<<a.val, b.val>>)

\* BigramCipher._process_pair (src/crypt_types.py), for a receiver whose
\* _matrix and _size are the arguments and whose _find_position(char) is
\* CryptBigramsBase._find_position(char, self._matrix).
BigramCipher_process_pair(matrix, size, char1, char2, direction) ==
    LET p1 == find_position(char1, matrix)
        p2 == find_position(char2, matrix)
        same_row == p1[1] = p2[1]
        same_col == p1[2] = p2[2]
        row1 == IF ~same_row /\ same_col THEN PyMod(p1[1] + direction, size) ELSE p1[1]
        row2 == IF ~same_row /\ same_col THEN PyMod(p2[1] + direction, size) ELSE p2[1]
        col1 == IF same_row THEN PyMod(p1[2] + direction, size)
                ELSE IF same_col THEN p1[2] ELSE p2[2]
        col2 == IF same_row THEN PyMod(p2[2] + direction, size)
                ELSE IF same_col THEN p2[2] ELSE p1[2]
        a == MatrixAt(matrix, row1, col1)
        b == MatrixAt(matrix, row2, col2)
    IN  IF ~a.ok THEN a ELSE IF ~b.ok THEN b ELSE Ok(<<a.val, b.val>>)

\* Playfer._process_pair: its first statement calls
\* self._find_position(char1) without the matrix the method requires.
Playfer_process_pair(char1, char2, direction) == Raise("TypeError")

\* Playfer.decrypt: no test of the length; the pairs are taken from the
\* upper-cased text as it is, msg[i + 1] is read before _process_pair is
\* called, and the first exception ends the call.  No field of self is read
\* before that, so the result is the same for every receiver.
Playfer_decrypt(msg) ==
    LET m == validate_input_string(msg)
    IN  IF Len(m) = 0 THEN Ok(<<>>)
        ELSE IF Len(m) = 1 THEN Raise("IndexError")
        ELSE Playfer_process_pair(m[1], m[2], 1)

\* TwoSquare.decrypt: no test of the length; the first pair looks up
\* self._proccess_pair, an attribute no TwoSquare has.
TwoSquare_decrypt(msg) ==
    LET m == validate_input_string(msg)
    IN  IF Len(m) = 0 THEN Ok(<<>>) ELSE Raise("AttributeError")

EXAMPLE == <<"E", "X", "A", "M", "P", "L", "E">>

KEYWORD == <<"K", "E", "Y", "W", "O", "R", "D">>

HELLOWORLD == <<"H", "E", "L", "L", "O", "W", "O", "R", "L", "D">>

BigramKeys == { <<>>, <<"A">>, <<"J">>, <<"a">>, EXAMPLE, KEYWORD }

BigramLanguages == { "eng", "rus", "en" }

BigramChars == { "H", "E", "x", " " }

BigramTexts == Texts(BigramChars, BigramMaxLen) \cup { HELLOWORLD, <<"H", "E", "L">> }

\* The client of a round trip holds its arguments from the start.
InitPlayfer ==
    /\ cipher = "Playfer"
    /\ CaesarIdle
    /\ UtilIdle
    /\ PolyIdle
    /\ VigIdle
    /\ b_key1 \in BigramKeys
    /\ b_key2 = <<>>
    /\ b_lang \in BigramLanguages
    /\ b_in \in BigramTexts
    /\ b_pc = "start"
    /\ b_out = Ok(<<>>)
    /\ b_res = Ok(<<>>)
    /\ b_call = NoCall

InitTwoSquare ==
    /\ cipher = "TwoSquare"
    /\ CaesarIdle
    /\ UtilIdle
    /\ PolyIdle
    /\ VigIdle
    /\ b_key1 \in BigramKeys
    /\ b_key2 \in BigramKeys
    /\ b_lang \in BigramLanguages
    /\ b_in \in BigramTexts
    /\ b_pc = "start"
    /\ b_out = Ok(<<>>)
    /\ b_res = Ok(<<>>)
    /\ b_call = NoCall

\* p = Playfer(b_key1, b_lang); p.decrypt(p.encrypt(b_in)): the first
\* statement of __init__ raises, no object is made and the exception ends
\* the round trip.
PlayferNew ==
    /\ cipher = "Playfer"
    /\ b_pc = "start"
    /\ b_out' = is_english(b_lang)
    /\ b_pc' = "raised"
    /\ UNCHANGED <<cipher, b_key1, b_key2, b_lang, b_in, b_res, b_call, notBigram>>

\* Playfer._find_position(None, char, matrix), called on the class, with
\* the key matrix of the arguments.
PlayferFindPosition(char) ==
    /\ cipher = "Playfer"
    /\ b_pc = "start"
    /\ b_res' = Ok(find_position(char,
                      generate_matrix_by_key(eng25_str_upper, 5, Upper(b_key1))))
    /\ b_call' = [op |-> "find_position", char |-> char]
    /\ b_pc' = "called"
    /\ UNCHANGED <<cipher, b_key1, b_key2, b_lang, b_in, b_out, notBigram>>

\* t = TwoSquare(b_key1, b_key2, b_lang); t.decrypt(t.encrypt(b_in))
TwoSquareNew ==
    /\ cipher = "TwoSquare"
    /\ b_pc = "start"
    /\ b_out' = is_english(b_lang)
    /\ b_pc' = "raised"
    /\ UNCHANGED <<cipher, b_key1, b_key2, b_lang, b_in, b_res, b_call, notBigram>>

\* CryptBigramsBase._find_position(char, matrix1)
BigramFindPosition(char) ==
    /\ cipher = "TwoSquare"
    /\ b_pc = "start"
    /\ b_res' = Ok(find_position(char,
                      generate_matrix_by_key(eng25_str_upper, 5, b_key1)))
    /\ b_call' = [op |-> "find_position", char |-> char]
    /\ b_pc' = "called"
    /\ UNCHANGED <<cipher, b_key1, b_key2, b_lang, b_in, b_out, notBigram>>

\* CryptBigramsBase._process_pair(b_in[0], b_in[1], matrix1, matrix2,
\* direction, 5), the call TwoSquare.encrypt and decrypt mean to make.
BigramProcessPair(direction) ==
    /\ cipher = "TwoSquare"
    /\ b_pc = "start"
    /\ Len(b_in) >= 2
    /\ b_res' = process_pair(UpperChar(b_in[1]), UpperChar(b_in[2]),
                    generate_matrix_by_key(eng25_str_upper, 5, b_key1),
                    generate_matrix_by_key(eng25_str_upper, 5, b_key2),
                    direction, 5)
    /\ b_call' = [op |-> "process_pair", char1 |-> UpperChar(b_in[1]),
                   char2 |-> UpperChar(b_in[2]), direction |-> direction]
    /\ b_pc' = "called"
    /\ UNCHANGED <<cipher, b_key1, b_key2, b_lang, b_in, b_out, notBigram>>

\* BigramCipher._process_pair(r, b_in[0], b_in[1], direction), r a receiver
\* holding the key matrix of b_key1 and the size 5.
BigramCipherProcessPair(direction) ==
    /\ cipher = "TwoSquare"
    /\ b_pc = "start"
    /\ Len(b_in) >= 2
    /\ b_res' = BigramCipher_process_pair(
                    generate_matrix_by_key(eng25_str_upper, 5, b_key1), 5,
                    UpperChar(b_in[1]), UpperChar(b_in[2]), direction)
    /\ b_call' = [op |-> "BigramCipher._process_pair", char1 |-> UpperChar(b_in[1]),
                   char2 |-> UpperChar(b_in[2]), direction |-> direction]
    /\ b_pc' = "called"
    /\ UNCHANGED <<cipher, b_key1, b_key2, b_lang, b_in, b_out, notBigram>>

\* Playfer.decrypt(p, b_in), p a Playfer made by Playfer.__new__(Playfer):
\* __init__ raises, so there is no other.
PlayferDecrypt ==
    /\ cipher = "Playfer"
    /\ b_pc = "start"
    /\ b_res' = Playfer_decrypt(b_in)
    /\ b_call' = [op |-> "decrypt"]
    /\ b_pc' = "decrypted"
    /\ UNCHANGED <<cipher, b_key1, b_key2, b_lang, b_in, b_out, notBigram>>

\* TwoSquare.decrypt(t, b_in), t made by TwoSquare.__new__(TwoSquare)
TwoSquareDecrypt ==
    /\ cipher = "TwoSquare"
    /\ b_pc = "start"
    /\ b_res' = TwoSquare_decrypt(b_in)
    /\ b_call' = [op |-> "decrypt"]
    /\ b_pc' = "decrypted"
    /\ UNCHANGED <<cipher, b_key1, b_key2, b_lang, b_in, b_out, notBigram>>

NextPlayfer ==
    \/ PlayferNew
    \/ PlayferDecrypt
    \/ \E char \in BigramChars \cup {"X", "J"} : PlayferFindPosition(char)

NextTwoSquare ==
    \/ TwoSquareNew
    \/ TwoSquareDecrypt
    \/ \E char \in BigramChars \cup {"X", "J"} : BigramFindPosition(char)
    \/ \E direction \in {-1, 1} : BigramProcessPair(direction)
    \/ \E direction \in {-1, 1} : BigramCipherProcessPair(direction)

SpecPlayfer == InitPlayfer /\ [][NextPlayfer]_vars

SpecTwoSquare == InitTwoSquare /\ [][NextTwoSquare]_vars

\* The characters of the text that are in the alphabet.
FilterToAlphabet(text, alphabet) == SelectSeq(text, LAMBDA ch : ch \in Range(alphabet))

\* The text with one filler 'X' when its length is odd.
PadToEven(text) == IF Len(text) % 2 = 1 THEN text \o <<"X">> ELSE text

\* C4: for every key accepted for the language and every text, the Playfair
\* round trip returns the upper-cased text filtered to the alphabet, with one
\* 'X' after it when that has odd length.
C4_PlayfairRoundTrip ==
    (/\ cipher = "Playfer" /\ b_pc = "raised"
     /\ b_lang = "eng" /\ is_valid_eng(Upper(b_key1)))
        => b_out = Ok(PadToEven(FilterToAlphabet(Upper(b_in), eng25_str_upper)))

\* C5: for every two keys and every text drawn from the alphabet, the
\* Two-Square round trip returns the upper-cased text, with one 'X' after it
\* when the text has odd length.
C5_TwoSquareRoundTrip ==
    (/\ cipher = "TwoSquare" /\ b_pc = "raised"
     /\ Range(Upper(b_in)) \subseteq Range(eng25_str_upper))
        => b_out = Ok(PadToEven(Upper(b_in)))

\* C13: Playfair and Two-Square decrypt refuse a text of odd length (with the
\* ValueError that PolybiusSquare.decrypt raises for it), whatever the text
\* holds, and returns nothing.
C13_OddLengthRejected ==
    (cipher \in {"Playfer", "TwoSquare"} /\ b_pc = "decrypted" /\ Len(b_in) % 2 = 1)
        => b_res = Raise("ValueError")

\* The key matrices of the helper calls.
Matrix1 == generate_matrix_by_key(eng25_str_upper, 5, b_key1)

Matrix2 == generate_matrix_by_key(eng25_str_upper, 5, b_key2)

\* The second matrix of the last pair processing: BigramCipher has one only.
SecondMatrix == IF b_call.op = "process_pair" THEN Matrix2 ELSE Matrix1

PairProcessed ==
    /\ cipher = "TwoSquare"
    /\ b_pc = "called"
    /\ b_call.op \in {"process_pair", "BigramCipher._process_pair"}

AbsentFrom(char, matrix) == \A i \in 1..Len(matrix) : char \notin Range(matrix[i])

SquareOfSize(matrix, size) ==
    /\ Len(matrix) = size
    /\ \A i \in 1..Len(matrix) : Len(matrix[i]) = size

\* The row and the column (from 0) of a character the matrix holds.
RowIn(matrix, char) ==
    (CHOOSE i \in 1..Len(matrix) :
        /\ char \in Range(matrix[i])
        /\ \A j \in 1..(i - 1) : char \notin Range(matrix[j])) - 1

ColIn(matrix, char) == Pos(matrix[RowIn(matrix, char) + 1], char) - 1

\* The two characters the rule gives for a pair found at (r1, c1) in m1 and
\* (r2, c2) in m2, with direction d.
PairRule(m1, m2, size, r1, c1, r2, c2, d) ==
    IF r1 = r2
    THEN << m1[r1 + 1][((c1 + d) % size) + 1], m2[r2 + 1][((c2 + d) % size) + 1] >>
    ELSE IF c1 = c2
    THEN << m1[((r1 + d) % size) + 1][c1 + 1], m2[((r2 + d) % size) + 1][c2 + 1] >>
    ELSE << m1[r1 + 1][c2 + 1], m2[r2 + 1][c1 + 1] >>

\* C16: for two characters found in size-by-size matrices, pair processing
\* returns the characters of the rule: columns shifted by d when the rows are
\* equal, else rows shifted by d when the columns are equal, else the
\* columns swapped.
C16_PairProcessingRule ==
    (/\ PairProcessed
     /\ SquareOfSize(Matrix1, 5) /\ SquareOfSize(SecondMatrix, 5)
     /\ ~AbsentFrom(b_call.char1, Matrix1) /\ ~AbsentFrom(b_call.char2, SecondMatrix))
        => b_res = Ok(PairRule(Matrix1, SecondMatrix, 5,
                               RowIn(Matrix1, b_call.char1), ColIn(Matrix1, b_call.char1),
                               RowIn(SecondMatrix, b_call.char2),
                               ColIn(SecondMatrix, b_call.char2),
                               b_call.direction))

\* The rule does hold for BigramCipher._process_pair, the one-matrix form
\* that no cipher of the repository uses.
BigramCipherFollowsRule ==
    b_call.op = "BigramCipher._process_pair" => C16_PairProcessingRule

\* C18: the matrix built for the digraph ciphers (the English alphabet of 25
\* letters, size 5) from a key the language accepts, a key with the letter J
\* included, is a 5-by-5 grid holding every character once: five rows of
\* five characters and no cell outside them.
C18_DigraphMatrixShape ==
    (/\ u_op = "generate_matrix_by_key"
     /\ u_alphabet = eng25_str_upper /\ u_cols = 5
     /\ is_valid_eng(u_key))
        => /\ u_res.ok
           /\ SquareOfSize(u_res.val, 5)
           /\ \A i, j \in 1..Len(Flatten(u_res.val)) :
                  Flatten(u_res.val)[i] = Flatten(u_res.val)[j] => i = j

----------------------------------------------------------------------------
Init == InitCaesar \/ InitUtil \/ InitPolybius \/ InitVigenere \/ InitPlayfer \/ InitTwoSquare

Next == NextCaesar \/ NextUtil \/ NextPolybius \/ NextVigenere \/ NextPlayfer \/ NextTwoSquare

Spec == Init /\ [][Next]_vars

====
